---- MODULE Spec2Model ----
(***************************************************************************)
(* Storage and sync layer of the CRC system (src/data.js) together with   *)
(* the dashboard handlers that call it (src/unnamed/part_000, app.js).    *)
(*                                                                         *)
(* localStorage is shared by every tab, sessionStorage is per tab.  A     *)
(* stored item is Null (getItem returns null), <<v>> (the JSON text of v) *)
(* or Corrupt (a text that is not JSON, stored by something else).        *)
(* Ids are <<prefix, n>>, n drawn from a counter that never repeats:      *)
(* uid() is random and a collision is not modelled.  Strings that go      *)
(* through toLowerCase (emails) are tuples of characters; every other     *)
(* string is a TLA+ string.  createdAt and the ts of a sync message are   *)
(* timestamps no operation reads; they are left out of the records.       *)
(***************************************************************************)
EXTENDS Integers, Sequences, FiniteSets, TLC

VARIABLES
    localStorage,    \* key -> Null | <<value>>, shared by all tabs
    sessionStorage,  \* tab -> Null | <<user>>
    bc,              \* the BroadcastChannel messages posted by the last completed operation
    nextId,          \* prefix -> how many ids uid(prefix) has handed out, plus one
    last,            \* the last completed operation: [op, tab, args, ret]
    tab,             \* tab -> the operation it is inside of (between its read and its
                     \* write), or what its last such operation returned
    inbox,           \* tab -> the messages posted by the other tabs' write() steps that
                     \* its onmessage handler has not run for yet
    stored           \* tab -> how many setItem calls its write() steps have made

vars == <<localStorage, sessionStorage, bc, nextId, last, tab, inbox, stored>>

----------------------------------------------------------------------------
(* Bounds of the model. *)

MaxIds == 4

\* how many projects the project screens hold, how many entries the other
\* scenarios let a collection grow to
MaxEdited == 1
MaxLen == 2

Tabs == {"tabA", "tabB"}

----------------------------------------------------------------------------
(* Values. *)

Null == <<>>

Prefixes == {"u_", "l_", "p_"}

KEYS ==
    [users    |-> "crc_users_v3",
     projects |-> "crc_projects_v3",
     leads    |-> "crc_leads_v3",
     defaults |-> "crc_defaults_v3",
     session  |-> "crc_session_v3"]

StoreKeys == {KEYS.users, KEYS.projects, KEYS.leads, KEYS.defaults}

FallbackDefaults == [defaultCommission |-> 6]

UpperChars == <<"A", "B", "X", "Y">>
LowerChars == <<"a", "b", "x", "y">>

LowerChar(c) ==
    IF \E i \in DOMAIN UpperChars : UpperChars[i] = c
    THEN LowerChars[CHOOSE i \in DOMAIN UpperChars : UpperChars[i] = c]
    ELSE c

toLowerCase(s) == [i \in 1..Len(s) |-> LowerChar(s[i])]

Str(s) == <<s>>

SeqRange(s) == {s[i] : i \in DOMAIN s}

Has(obj, f) == f \in DOMAIN obj

\* Array.prototype.find: the index of the first element that satisfies the
\* test, given the indices of those that do; 0 if none does.
FindIndex(hits) ==
    IF hits = {} THEN 0 ELSE CHOOSE i \in hits : \A j \in hits : i <= j

----------------------------------------------------------------------------
(* An operation runs in an environment E = [ls, ss, bc, n]: the            *)
(* localStorage it sees, the calling tab's sessionStorage item, the        *)
(* messages it has posted so far and the uid counter.  Every operator       *)
(* below returns [E |-> the environment it leaves, ret |-> its result].     *)

Env(ls, ss, n) == [ls |-> ls, ss |-> ss, bc |-> <<>>, n |-> n]

\* a stored text that is not JSON (the program never writes one)
Corrupt == <<"{", "oops">>

\* read without its try and catch: the SyntaxError of JSON.parse gets out
ParseNoCatch(item, fallback) ==
    IF item = Null THEN fallback
    ELSE IF item = Corrupt THEN [raised |-> "SyntaxError"]
    ELSE item[1]

\* try { JSON.parse(item || JSON.stringify(fallback)) } catch(e) { fallback }
Parse(item, fallback) ==
    IF item = Null \/ item = Corrupt THEN fallback ELSE item[1]

read(ls, k, fallback) == Parse(ls[k], fallback)

readObj(ls, k, fallback) == read(ls, k, fallback)

write(E, k, v) ==
    [E EXCEPT !.ls[k] = <<v>>,
              !.bc = Append(@, [type |-> "sync", key |-> k])]

\* uid(prefix): a token no earlier call with that prefix returned
uid(E, prefix) == <<prefix, E.n[prefix]>>

Tick(E, prefix) == [E EXCEPT !.n[prefix] = @ + 1]

setSession(E, user) ==
    [E EXCEPT !.ss = <<user>>,
              !.bc = Append(@, [type |-> "auth", userId |-> user.id])]

getSession(ss) == IF ss = Null THEN Null ELSE ss[1]

clearSessionOp(E) ==
    [E |-> [E EXCEPT !.ss = Null, !.bc = Append(@, [type |-> "auth-logout"])],
     ret |-> Null]

SameEmail(u, email) == toLowerCase(u.email) = toLowerCase(email)

\* registerUser that compares the emails as they are written
registerUserCaseSensitive(E, a) ==
    LET users == read(E.ls, KEYS.users, <<>>)
        u == [id |-> uid(E, "u_"), email |-> toLowerCase(a.email),
              name |-> a.name, role |-> a.role]
    IN  IF a.email = <<>> \/ a.name = ""
        THEN [E |-> E, ret |-> [error |-> "Name and email required"]]
        ELSE IF \E i \in DOMAIN users : users[i].email = a.email
        THEN [E |-> E, ret |-> [error |-> "Email already registered"]]
        ELSE [E |-> write(Tick(E, "u_"), KEYS.users, Append(users, u)),
              ret |-> [ok |-> TRUE, user |-> u]]

registerUserOp(E, a) ==
    LET users == read(E.ls, KEYS.users, <<>>)
        u == [id |-> uid(E, "u_"), email |-> toLowerCase(a.email),
              name |-> a.name, role |-> a.role]
    IN  IF a.email = <<>> \/ a.name = ""
        THEN [E |-> E, ret |-> [error |-> "Name and email required"]]
        ELSE IF \E i \in DOMAIN users : SameEmail(users[i], a.email)
        THEN [E |-> E, ret |-> [error |-> "Email already registered"]]
        ELSE [E |-> write(Tick(E, "u_"), KEYS.users, Append(users, u)),
              ret |-> [ok |-> TRUE, user |-> u]]

\* loginUser that compares the emails as they are written
loginUserCaseSensitive(E, a) ==
    LET users == read(E.ls, KEYS.users, <<>>)
        Match(x) == x.email = a.email
        i == FindIndex({k \in DOMAIN users : Match(users[k])})
    IN  IF i = 0
        THEN [E |-> E, ret |-> [error |-> "User not found. Register first."]]
        ELSE [E |-> setSession(E, users[i]), ret |-> [ok |-> TRUE, user |-> users[i]]]

loginUserOp(E, a) ==
    LET users == read(E.ls, KEYS.users, <<>>)
        Match(x) == SameEmail(x, a.email)
        i == FindIndex({k \in DOMAIN users : Match(users[k])})
    IN  IF i = 0
        THEN [E |-> E, ret |-> [error |-> "User not found. Register first."]]
        ELSE [E |-> setSession(E, users[i]), ret |-> [ok |-> TRUE, user |-> users[i]]]

\* registerOrGetUserByEmail that compares the emails as they are written
registerOrGetCaseSensitive(E, a) ==
    LET users == read(E.ls, KEYS.users, <<>>)
        Match(x) == x.email = a.email
        i == FindIndex({k \in DOMAIN users : Match(users[k])})
        u == [id |-> uid(E, "u_"), email |-> toLowerCase(a.email),
              name |-> a.name, role |-> a.role]
    IN  IF i = 0
        THEN [E |-> write(Tick(E, "u_"), KEYS.users, Append(users, u)), ret |-> u]
        ELSE [E |-> E, ret |-> users[i]]

registerOrGetUserByEmailOp(E, a) ==
    LET users == read(E.ls, KEYS.users, <<>>)
        Match(x) == SameEmail(x, a.email)
        i == FindIndex({k \in DOMAIN users : Match(users[k])})
        u == [id |-> uid(E, "u_"), email |-> toLowerCase(a.email),
              name |-> a.name, role |-> a.role]
    IN  IF i = 0
        THEN [E |-> write(Tick(E, "u_"), KEYS.users, Append(users, u)), ret |-> u]
        ELSE [E |-> E, ret |-> users[i]]

\* addLead that puts the new lead last
addLeadPush(E, a) ==
    LET leads == read(E.ls, KEYS.leads, <<>>)
        lead == [id |-> uid(E, "l_"), referrerId |-> a.referrerId,
                 email |-> toLowerCase(a.email), notes |-> a.notes,
                 status |-> "new", convertedProjectId |-> Null]
    IN  [E |-> write(Tick(E, "l_"), KEYS.leads, Append(leads, lead)), ret |-> lead]

addLeadOp(E, a) ==
    LET leads == read(E.ls, KEYS.leads, <<>>)
        lead == [id |-> uid(E, "l_"), referrerId |-> a.referrerId,
                 email |-> toLowerCase(a.email), notes |-> a.notes,
                 status |-> "new", convertedProjectId |-> Null]
    IN  [E |-> write(Tick(E, "l_"), KEYS.leads, <<lead>> \o leads), ret |-> lead]

NewStages ==
    << [key |-> "foundation", label |-> "Foundation", done |-> FALSE],
       [key |-> "framing",    label |-> "Framing",    done |-> FALSE],
       [key |-> "roof",       label |-> "Roof",       done |-> FALSE],
       [key |-> "finishing",  label |-> "Finishing",  done |-> FALSE] >>

\* payload.f || d, for a string, a number and an id (uid never returns the
\* empty string).  The default location, a dash, is written "--".
OrStr(payload, f, d) == IF Has(payload, f) /\ payload[f] # "" THEN payload[f] ELSE d
OrNum(payload, f, d) == IF Has(payload, f) /\ payload[f] # 0 THEN payload[f] ELSE d
OrId(payload, f, d) == IF Has(payload, f) /\ payload[f] # Null THEN payload[f] ELSE d
\* payload.f ?? d
Nullish(payload, f, d) == IF Has(payload, f) THEN payload[f] ELSE d

\* addProject that takes the commission from the constant, not from Defaults
addProjectFixedCommission(E, a) ==
    LET projects == read(E.ls, KEYS.projects, <<>>)
        payload == a.payload
        p == [id |-> uid(E, "p_"),
              customerId |-> a.customerId,
              location |-> OrStr(payload, "location", "--"),
              plot |-> OrNum(payload, "plot", 0),
              budget |-> OrNum(payload, "budget", 0),
              materials |-> OrStr(payload, "materials", "Standard"),
              timeline |-> OrNum(payload, "timeline", 12),
              status |-> "pending",
              verified |-> FALSE,
              assignedContractor |-> Null,
              referrerId |-> OrId(payload, "referrerId", Null),
              commissionPercent |-> Nullish(payload, "commissionPercent",
                                            FallbackDefaults.defaultCommission),
              stages |-> NewStages]
    IN  [E |-> write(Tick(E, "p_"), KEYS.projects, <<p>> \o projects), ret |-> p]

addProjectOp(E, a) ==
    LET projects == read(E.ls, KEYS.projects, <<>>)
        defaults == readObj(E.ls, KEYS.defaults, FallbackDefaults)
        payload == a.payload
        p == [id |-> uid(E, "p_"),
              customerId |-> a.customerId,
              location |-> OrStr(payload, "location", "--"),
              plot |-> OrNum(payload, "plot", 0),
              budget |-> OrNum(payload, "budget", 0),
              materials |-> OrStr(payload, "materials", "Standard"),
              timeline |-> OrNum(payload, "timeline", 12),
              status |-> "pending",
              verified |-> FALSE,
              assignedContractor |-> Null,
              referrerId |-> OrId(payload, "referrerId", Null),
              commissionPercent |-> Nullish(payload, "commissionPercent", defaults.defaultCommission),
              stages |-> NewStages]
    IN  [E |-> write(Tick(E, "p_"), KEYS.projects, <<p>> \o projects), ret |-> p]

every(stages) == \A i \in DOMAIN stages : stages[i].done

\* Object.assign(p, changes)
Assign(p, changes) ==
    [f \in DOMAIN p \cup DOMAIN changes |-> IF Has(changes, f) THEN changes[f] ELSE p[f]]

Completed(p) == IF every(p.stages) THEN [p EXCEPT !.status = "completed"] ELSE p

\* updateProject that writes the collection back although it found no project
updateProjectWritesAnyway(E, a) ==
    LET projects == read(E.ls, KEYS.projects, <<>>)
        Match(x) == x.id = a.projectId
        i == FindIndex({k \in DOMAIN projects : Match(projects[k])})
        p == Completed(Assign(projects[i], a.changes))
    IN  IF i = 0
        THEN [E |-> write(E, KEYS.projects, projects), ret |-> Null]
        ELSE [E |-> write(E, KEYS.projects, [projects EXCEPT ![i] = p]), ret |-> p]

\* updateProject without its completion check
updateProjectNoCheck(E, a) ==
    LET projects == read(E.ls, KEYS.projects, <<>>)
        Match(x) == x.id = a.projectId
        i == FindIndex({k \in DOMAIN projects : Match(projects[k])})
        p == Assign(projects[i], a.changes)
    IN  IF i = 0
        THEN [E |-> E, ret |-> Null]
        ELSE [E |-> write(E, KEYS.projects, [projects EXCEPT ![i] = p]), ret |-> p]

updateProjectOp(E, a) ==
    LET projects == read(E.ls, KEYS.projects, <<>>)
        Match(x) == x.id = a.projectId
        i == FindIndex({k \in DOMAIN projects : Match(projects[k])})
        p == Completed(Assign(projects[i], a.changes))
    IN  IF i = 0
        THEN [E |-> E, ret |-> Null]
        ELSE [E |-> write(E, KEYS.projects, [projects EXCEPT ![i] = p]), ret |-> p]

Toggle(stages, stageKey) ==
    LET Match(st) == st.key = stageKey
        j == FindIndex({k \in DOMAIN stages : Match(stages[k])})
    IN  IF j = 0 THEN stages ELSE [stages EXCEPT ![j].done = ~@]

\* toggleStage without its completion check
toggleStageNoCheck(E, a) ==
    LET projects == read(E.ls, KEYS.projects, <<>>)
        Match(x) == x.id = a.projectId
        i == FindIndex({k \in DOMAIN projects : Match(projects[k])})
        p == [projects[i] EXCEPT !.stages = Toggle(@, a.stageKey)]
    IN  IF i = 0
        THEN [E |-> E, ret |-> Null]
        ELSE [E |-> write(E, KEYS.projects, [projects EXCEPT ![i] = p]), ret |-> p]

\* toggleStage that marks the stage done instead of flipping it
toggleStageSetsDone(E, a) ==
    LET projects == read(E.ls, KEYS.projects, <<>>)
        Match(x) == x.id = a.projectId
        i == FindIndex({k \in DOMAIN projects : Match(projects[k])})
        Hit(st) == st.key = a.stageKey
        j == FindIndex({k \in DOMAIN projects[i].stages : Hit(projects[i].stages[k])})
        p == Completed([projects[i] EXCEPT !.stages =
                            IF j = 0 THEN @ ELSE [@ EXCEPT ![j].done = TRUE]])
    IN  IF i = 0
        THEN [E |-> E, ret |-> Null]
        ELSE [E |-> write(E, KEYS.projects, [projects EXCEPT ![i] = p]), ret |-> p]

toggleStageOp(E, a) ==
    LET projects == read(E.ls, KEYS.projects, <<>>)
        Match(x) == x.id = a.projectId
        i == FindIndex({k \in DOMAIN projects : Match(projects[k])})
        p == Completed([projects[i] EXCEPT !.stages = Toggle(@, a.stageKey)])
    IN  IF i = 0
        THEN [E |-> E, ret |-> Null]
        ELSE [E |-> write(E, KEYS.projects, [projects EXCEPT ![i] = p]), ret |-> p]

\* convertLeadToProject that records the project on the lead but not the status
convertKeepsStatus(E, a) ==
    LET leads == read(E.ls, KEYS.leads, <<>>)
        Match(l) == l.id = a.leadId
        i == FindIndex({k \in DOMAIN leads : Match(leads[k])})
        lead == leads[i]
        C == registerOrGetUserByEmailOp(E, [email |-> lead.email, name |-> a.customerName,
                                            role |-> "customer"])
        P == addProjectOp(C.E, [customerId |-> C.ret.id,
                                payload |-> [location |-> "(from lead)", budget |-> a.budget,
                                             materials |-> "TBD", timeline |-> 12,
                                             referrerId |-> lead.referrerId]])
        converted == [lead EXCEPT !.convertedProjectId = P.ret.id]
    IN  IF i = 0
        THEN [E |-> E, ret |-> [error |-> "Lead not found"]]
        ELSE [E |-> write(P.E, KEYS.leads, [leads EXCEPT ![i] = converted]),
              ret |-> [ok |-> TRUE, project |-> P.ret]]

\* convertLeadToProject that marks the lead but does not record the project
convertForgetsProject(E, a) ==
    LET leads == read(E.ls, KEYS.leads, <<>>)
        Match(l) == l.id = a.leadId
        i == FindIndex({k \in DOMAIN leads : Match(leads[k])})
        lead == leads[i]
        C == registerOrGetUserByEmailOp(E, [email |-> lead.email, name |-> a.customerName,
                                            role |-> "customer"])
        P == addProjectOp(C.E, [customerId |-> C.ret.id,
                                payload |-> [location |-> "(from lead)", budget |-> a.budget,
                                             materials |-> "TBD", timeline |-> 12,
                                             referrerId |-> lead.referrerId]])
        converted == [lead EXCEPT !.status = "converted"]
    IN  IF i = 0
        THEN [E |-> E, ret |-> [error |-> "Lead not found"]]
        ELSE [E |-> write(P.E, KEYS.leads, [leads EXCEPT ![i] = converted]),
              ret |-> [ok |-> TRUE, project |-> P.ret]]

\* convertLeadToProject that does not carry the lead's referrer forward
convertDropsReferrer(E, a) ==
    LET leads == read(E.ls, KEYS.leads, <<>>)
        Match(l) == l.id = a.leadId
        i == FindIndex({k \in DOMAIN leads : Match(leads[k])})
        lead == leads[i]
        C == registerOrGetUserByEmailOp(E, [email |-> lead.email, name |-> a.customerName,
                                            role |-> "customer"])
        P == addProjectOp(C.E, [customerId |-> C.ret.id,
                                payload |-> [location |-> "(from lead)", budget |-> a.budget,
                                             materials |-> "TBD", timeline |-> 12]])
        converted == [lead EXCEPT !.status = "converted", !.convertedProjectId = P.ret.id]
    IN  IF i = 0
        THEN [E |-> E, ret |-> [error |-> "Lead not found"]]
        ELSE [E |-> write(P.E, KEYS.leads, [leads EXCEPT ![i] = converted]),
              ret |-> [ok |-> TRUE, project |-> P.ret]]

convertLeadToProjectOp(E, a) ==
    LET leads == read(E.ls, KEYS.leads, <<>>)
        Match(l) == l.id = a.leadId
        i == FindIndex({k \in DOMAIN leads : Match(leads[k])})
        lead == leads[i]
        C == registerOrGetUserByEmailOp(E, [email |-> lead.email, name |-> a.customerName,
                                            role |-> "customer"])
        cust == C.ret
        P == addProjectOp(C.E, [customerId |-> cust.id,
                                payload |-> [location |-> "(from lead)", budget |-> a.budget,
                                             materials |-> "TBD", timeline |-> 12,
                                             referrerId |-> lead.referrerId]])
        project == P.ret
        converted == [lead EXCEPT !.status = "converted", !.convertedProjectId = project.id]
    IN  IF i = 0
        THEN [E |-> E, ret |-> [error |-> "Lead not found"]]
        ELSE [E |-> write(P.E, KEYS.leads, [leads EXCEPT ![i] = converted]),
              ret |-> [ok |-> TRUE, project |-> project]]

writeDefaultsOp(E, a) == [E |-> write(E, KEYS.defaults, a.obj), ret |-> Null]

\* clearAll that leaves the defaults in the store
clearAllKeepsDefaults(E) ==
    [E |-> [E EXCEPT !.ls = [k \in StoreKeys |->
                                IF k = KEYS.defaults THEN E.ls[k] ELSE Null],
                     !.ss = Null,
                     !.bc = Append(@, [type |-> "cleared"])],
     ret |-> Null]

clearAllOp(E) ==
    [E |-> [E EXCEPT !.ls = [k \in StoreKeys |-> Null],
                     !.ss = Null,
                     !.bc = Append(@, [type |-> "cleared"])],
     ret |-> Null]

AliceEmail == <<"a","l","i","c","e","@","r","e","f",".","c","o","m">>
BobEmail == <<"b","o","b","@","a","d","m","i","n",".","c","o","m">>
CarlEmail == <<"c","a","r","l","@","c","u","s","t",".","c","o","m">>
Lead1Email == <<"l","e","a","d","1","@","e","x","a","m","p","l","e",".","c","o","m">>

\* seedDemo without its check of the Users collection
seedDemoAlways(E) ==
    LET E1 == Tick(E, "u_")
        E2 == Tick(E1, "u_")
        E3 == Tick(E2, "u_")
        E4 == Tick(E3, "l_")
        u1 == [id |-> uid(E, "u_"), email |-> AliceEmail, name |-> "Alice Referrer", role |-> "referrer"]
        u2 == [id |-> uid(E1, "u_"), email |-> BobEmail, name |-> "Bob Admin", role |-> "admin"]
        u3 == [id |-> uid(E2, "u_"), email |-> CarlEmail, name |-> "Carl Customer", role |-> "customer"]
        lead == [id |-> uid(E3, "l_"), referrerId |-> u1.id, email |-> Lead1Email,
                 notes |-> "Interested in 3BHK", status |-> "new", convertedProjectId |-> Null]
        p == [id |-> uid(E4, "p_"),
              customerId |-> u3.id,
              location |-> "Greenhill Estate",
              plot |-> 120,
              budget |-> 42000,
              materials |-> "Premium",
              timeline |-> 16,
              status |-> "pending",
              verified |-> FALSE,
              assignedContractor |-> Null,
              referrerId |-> u1.id,
              commissionPercent |-> 7,
              stages |-> [NewStages EXCEPT ![1].done = TRUE]]
        W1 == write(Tick(E4, "p_"), KEYS.users, <<u1, u2, u3>>)
        W2 == write(W1, KEYS.leads, <<lead>>)
        W3 == write(W2, KEYS.projects, <<p>>)
    IN  [E |-> W3, ret |-> Null]

seedDemoOp(E) ==
    LET E1 == Tick(E, "u_")
        E2 == Tick(E1, "u_")
        E3 == Tick(E2, "u_")
        E4 == Tick(E3, "l_")
        u1 == [id |-> uid(E, "u_"), email |-> AliceEmail, name |-> "Alice Referrer", role |-> "referrer"]
        u2 == [id |-> uid(E1, "u_"), email |-> BobEmail, name |-> "Bob Admin", role |-> "admin"]
        u3 == [id |-> uid(E2, "u_"), email |-> CarlEmail, name |-> "Carl Customer", role |-> "customer"]
        lead == [id |-> uid(E3, "l_"), referrerId |-> u1.id, email |-> Lead1Email,
                 notes |-> "Interested in 3BHK", status |-> "new", convertedProjectId |-> Null]
        p == [id |-> uid(E4, "p_"),
              customerId |-> u3.id,
              location |-> "Greenhill Estate",
              plot |-> 120,
              budget |-> 42000,
              materials |-> "Premium",
              timeline |-> 16,
              status |-> "pending",
              verified |-> FALSE,
              assignedContractor |-> Null,
              referrerId |-> u1.id,
              commissionPercent |-> 7,
              stages |-> [NewStages EXCEPT ![1].done = TRUE]]
        W1 == write(Tick(E4, "p_"), KEYS.users, <<u1, u2, u3>>)
        W2 == write(W1, KEYS.leads, <<lead>>)
        W3 == write(W2, KEYS.projects, <<p>>)
    IN  IF Len(read(E.ls, KEYS.users, <<>>)) # 0
        THEN [E |-> E, ret |-> Null]
        ELSE [E |-> W3, ret |-> Null]

----------------------------------------------------------------------------
(* The inputs the callers pass. *)

Emails == {<<>>, <<"a","@","x">>, <<"A","@","X">>, <<"b","@","y">>}

Names == {"", "Ann"}

Roles == {"admin", "referrer", "customer"}

Statuses == {"pending", "in-progress", "approved", "completed"}

StageKeys == {"foundation", "framing", "roof", "finishing"}

\* app.js: Assign and Approve
AssignChanges == [assignedContractor |-> Str("Acme"), status |-> "in-progress"]
ApproveChanges == [verified |-> TRUE, status |-> "approved"]

Changes == {AssignChanges, ApproveChanges}

\* app.js: the inline edit of the budget on the project detail
BudgetChanges == [budget |-> 50000]

AllChanges == Changes \cup {BudgetChanges}

\* changes that name the stages: updateProject takes any field
StagesChanges == [stages |-> <<[key |-> "roof", label |-> "Roof", done |-> TRUE]>>]

\* app.js: the settings save writes { defaultCommission: val }, 0 <= val <= 100
DefaultsObjs == {[defaultCommission |-> 10], [defaultCommission |-> 0]}

\* app.js: the payloads of the two project forms, and one that names the
\* commission
Payloads ==
    {[location |-> "Hill", budget |-> 9000, timeline |-> 12],
     [location |-> "Hill", budget |-> 9000],
     [location |-> "Hill", budget |-> 9000, commissionPercent |-> 7]}

\* the fallbacks the callers pass to read
Fallbacks == {<<>>, FallbackDefaults}

Stored(k) == read(localStorage, k, <<>>)

IdsOf(k) == {x.id : x \in SeqRange(Stored(k))}

MissingProject == <<"p_", 0>>
MissingLead == <<"l_", 0>>

----------------------------------------------------------------------------
(* State. *)

\* the commission cut off, not rounded
commissionAmountTruncated(p) ==
    (OrNum(p, "budget", 0) * OrNum(p, "commissionPercent", 0)) \div 100

\* app.js: Math.round((p.budget || 0) * (p.commissionPercent || 0) / 100);
\* Math.round is floor(x + 0.5)
commissionAmount(p) ==
    (OrNum(p, "budget", 0) * OrNum(p, "commissionPercent", 0) + 50) \div 100

\* app.js: the inline edits of the budget and the commission of a project
BudgetEdits == {[budget |-> 50], [budget |-> 42025]}
CommissionEdits == {[commissionPercent |-> 7], [commissionPercent |-> 0]}

Idle == [pc |-> "idle"]

\* data.js line 31: the defaults are written when the script first loads
Init ==
    /\ localStorage = [k \in StoreKeys |->
                         IF k = KEYS.defaults THEN <<FallbackDefaults>> ELSE Null]
    /\ sessionStorage = [t \in Tabs |-> Null]
    /\ bc = <<[type |-> "sync", key |-> KEYS.defaults]>>
    /\ nextId = [prefix \in Prefixes |-> 1]
    /\ last = [op |-> "load", tab |-> "tabA", args |-> Null, ret |-> Null]
    /\ tab = [t \in Tabs |-> Idle]
    /\ inbox = [t \in Tabs |-> <<>>]
    /\ stored = [t \in Tabs |-> 0]

Here(t) == Env(localStorage, sessionStorage[t], nextId)

\* Run with the session kept where every tab reads it, as localStorage is
RunSharedSession(t, op, args, R) ==
    /\ tab[t].pc = "idle"
    /\ \A prefix \in Prefixes : R.E.n[prefix] <= MaxIds + 1
    /\ localStorage' = R.E.ls
    /\ sessionStorage' = [u \in Tabs |-> R.E.ss]
    /\ bc' = R.E.bc
    /\ nextId' = R.E.n
    /\ last' = [op |-> op, tab |-> t, args |-> args, ret |-> R.ret]
    /\ tab' = [tab EXCEPT ![t] = Idle]
    /\ UNCHANGED <<inbox, stored>>

\* Tab t runs the whole of an operation, no other tab's step inside it.
Run(t, op, args, R) ==
    /\ tab[t].pc = "idle"
    /\ \A prefix \in Prefixes : R.E.n[prefix] <= MaxIds + 1
    /\ localStorage' = R.E.ls
    /\ sessionStorage' = [sessionStorage EXCEPT ![t] = R.E.ss]
    /\ bc' = R.E.bc
    /\ nextId' = R.E.n
    /\ last' = [op |-> op, tab |-> t, args |-> args, ret |-> R.ret]
    /\ tab' = [tab EXCEPT ![t] = Idle]
    /\ UNCHANGED <<inbox, stored>>

registerUser(t, email, name, role) ==
    LET a == [email |-> email, name |-> name, role |-> role]
    IN  Run(t, "registerUser", a, registerUserOp(Here(t), a))

loginUser(t, email) ==
    LET a == [email |-> email]
    IN  Run(t, "loginUser", a, loginUserOp(Here(t), a))

registerOrGetUserByEmail(t, email, name, role) ==
    LET a == [email |-> email, name |-> name, role |-> role]
    IN  Run(t, "registerOrGetUserByEmail", a, registerOrGetUserByEmailOp(Here(t), a))

addLead(t, referrerId, email, notes) ==
    LET a == [referrerId |-> referrerId, email |-> email, notes |-> notes]
    IN  Run(t, "addLead", a, addLeadOp(Here(t), a))

addProject(t, customerId, payload) ==
    LET a == [customerId |-> customerId, payload |-> payload]
    IN  Run(t, "addProject", a, addProjectOp(Here(t), a))

updateProject(t, projectId, changes) ==
    LET a == [projectId |-> projectId, changes |-> changes]
    IN  Run(t, "updateProject", a, updateProjectOp(Here(t), a))

toggleStage(t, projectId, stageKey) ==
    LET a == [projectId |-> projectId, stageKey |-> stageKey]
    IN  Run(t, "toggleStage", a, toggleStageOp(Here(t), a))

convertLeadToProject(t, leadId, customerName, budget) ==
    LET a == [leadId |-> leadId, customerName |-> customerName, budget |-> budget]
    IN  Run(t, "convertLeadToProject", a, convertLeadToProjectOp(Here(t), a))

writeDefaults(t, obj) ==
    LET a == [obj |-> obj]
    IN  Run(t, "writeDefaults", a, writeDefaultsOp(Here(t), a))

\* CRCData.setSession(user), the exported setSessionExtern
setSessionExtern(t, user) ==
    LET a == [user |-> user]
    IN  Run(t, "setSession", a, [E |-> setSession(Here(t), user), ret |-> Null])

\* CRCData.read(k, fallback), called by the views
readItem(t, k, fallback) ==
    LET a == [k |-> k, fallback |-> fallback]
    IN  Run(t, "read", a, [E |-> Here(t), ret |-> read(localStorage, k, fallback)])

\* Something other than this program (the user, another script of the origin)
\* stores a text under k that is not JSON.
corruptItem(k) ==
    /\ localStorage' = [localStorage EXCEPT ![k] = Corrupt]
    /\ bc' = <<>>
    /\ last' = [op |-> "corrupt", tab |-> "tabA", args |-> [k |-> k], ret |-> Null]
    /\ UNCHANGED <<sessionStorage, nextId, tab, inbox, stored>>

\* app.js: the project list shows the commission amount of every project
renderProjects(t) ==
    LET list == read(localStorage, KEYS.projects, <<>>)
    IN  Run(t, "renderProjects", Null,
            [E |-> Here(t), ret |-> [i \in DOMAIN list |-> commissionAmount(list[i])]])

clearSession(t) == Run(t, "clearSession", Null, clearSessionOp(Here(t)))

clearAll(t) == Run(t, "clearAll", Null, clearAllOp(Here(t)))

seedDemo(t) == Run(t, "seedDemo", Null, seedDemoOp(Here(t)))

----------------------------------------------------------------------------
(* Two tabs share localStorage without a lock.  An operation reads its    *)
(* collection once, works on the copy it parsed and writes the copy back;  *)
(* another tab's steps can fall between the read and the write.           *)

\* Tab t reads collection k (read(k, []) at the head of the operation).
Begin(t, op, k, args) ==
    /\ tab[t].pc = "idle"
    /\ tab' = [tab EXCEPT ![t] = [pc |-> op, args |-> args, key |-> k,
                                  snap |-> localStorage[k]]]
    /\ UNCHANGED <<localStorage, sessionStorage, bc, nextId, last, inbox, stored>>

\* tab t working on the store as it is when it writes
Fresh(t) == Env(localStorage, sessionStorage[t], nextId)

\* What tab t works on after its read: the copy it parsed, not the store.
Stale(t) ==
    Env([localStorage EXCEPT ![tab[t].key] = tab[t].snap], sessionStorage[t], nextId)

Wrote(R, k) ==
    \E i \in DOMAIN R.E.bc : R.E.bc[i].type = "sync" /\ R.E.bc[i].key = k

\* Tab t finishes the operation: only what it writes reaches the store.
Finish(t, op, R) ==
    /\ tab[t].pc = op
    /\ \A prefix \in Prefixes : R.E.n[prefix] <= MaxIds + 1
    /\ localStorage' = [k \in StoreKeys |->
                          IF Wrote(R, k) THEN R.E.ls[k] ELSE localStorage[k]]
    /\ sessionStorage' = [sessionStorage EXCEPT ![t] = R.E.ss]
    /\ bc' = R.E.bc
    /\ nextId' = R.E.n
    /\ last' = [op |-> op, tab |-> t, args |-> tab[t].args, ret |-> R.ret]
    /\ tab' = [tab EXCEPT ![t] = [pc |-> "idle", op |-> op, args |-> tab[t].args,
                                  ret |-> R.ret]]
    /\ UNCHANGED <<inbox, stored>>

registerUserRead(t, email, name, role) ==
    Begin(t, "registerUser", KEYS.users, [email |-> email, name |-> name, role |-> role])

registerUserWrite(t) ==
    Finish(t, "registerUser", registerUserOp(Stale(t), tab[t].args))

registerOrGetUserByEmailRead(t, email, name, role) ==
    Begin(t, "registerOrGetUserByEmail", KEYS.users,
          [email |-> email, name |-> name, role |-> role])

registerOrGetUserByEmailWrite(t) ==
    Finish(t, "registerOrGetUserByEmail", registerOrGetUserByEmailOp(Stale(t), tab[t].args))

addLeadRead(t, referrerId, email, notes) ==
    Begin(t, "addLead", KEYS.leads,
          [referrerId |-> referrerId, email |-> email, notes |-> notes])

addLeadWrite(t) ==
    Finish(t, "addLead", addLeadOp(Stale(t), tab[t].args))

updateProjectRead(t, projectId, changes) ==
    Begin(t, "updateProject", KEYS.projects, [projectId |-> projectId, changes |-> changes])

updateProjectWrite(t) ==
    Finish(t, "updateProject", updateProjectOp(Stale(t), tab[t].args))

----------------------------------------------------------------------------
(* write(k, v) statement by statement, and the messages on their way.  A   *)
(* message posted in one tab is handled in every other tab at some later   *)
(* time, when that tab runs no code of its own.  from and seq are not part *)
(* of the message: they record which setItem the message announces.        *)

\* write with the broadcast before the setItem
PostFirst == <<"postMessage", "setItem">>

\* the two statements of write, in their order
WriteOrder == <<"setItem", "postMessage">>

Others(t) == Tabs \ {t}

\* Tab t calls write(k, v).
writeBegin(t, k, v) ==
    /\ tab[t].pc = "idle"
    /\ stored[t] < MaxIds
    /\ \A u \in Others(t) : Len(inbox[u]) < MaxLen
    /\ tab' = [tab EXCEPT ![t] = [pc |-> "write", key |-> k, value |-> v,
                                  todo |-> WriteOrder, seq |-> stored[t] + 1]]
    /\ UNCHANGED <<localStorage, sessionStorage, bc, nextId, last, inbox, stored>>

\* Tab t runs the next statement of its write.
writeStep(t) ==
    /\ tab[t].pc = "write"
    /\ LET k == tab[t].key
           rest == Tail(tab[t].todo)
           d == [type |-> "sync", key |-> k, from |-> t, seq |-> tab[t].seq]
       IN  /\ IF Head(tab[t].todo) = "setItem"
              THEN /\ localStorage' = [localStorage EXCEPT ![k] = <<tab[t].value>>]
                   /\ stored' = [stored EXCEPT ![t] = @ + 1]
                   /\ UNCHANGED <<inbox, bc>>
              ELSE /\ inbox' = [u \in Tabs |->
                                  IF u = t THEN inbox[u] ELSE Append(inbox[u], d)]
                   /\ bc' = <<[type |-> "sync", key |-> k]>>
                   /\ UNCHANGED <<localStorage, stored>>
           /\ IF rest = <<>>
              THEN /\ tab' = [tab EXCEPT ![t] = [pc |-> "idle", op |-> "write",
                                                 args |-> [k |-> k, v |-> tab[t].value],
                                                 ret |-> Null]]
                   /\ last' = [op |-> "write", tab |-> t,
                               args |-> [k |-> k, v |-> tab[t].value], ret |-> Null]
              ELSE /\ tab' = [tab EXCEPT ![t].todo = rest]
                   /\ UNCHANGED last
    /\ UNCHANGED <<sessionStorage, nextId>>

\* BC.onmessage in tab t: render() reads the store again.
onmessage(t) ==
    /\ tab[t].pc = "idle"
    /\ inbox[t] # <<>>
    /\ LET d == Head(inbox[t])
       IN  /\ inbox' = [inbox EXCEPT ![t] = Tail(@)]
           /\ tab' = [tab EXCEPT ![t] = [pc |-> "idle", op |-> "onmessage", args |-> d,
                                         ret |-> localStorage[d.key]]]
           /\ last' = [op |-> "onmessage", tab |-> t, args |-> d,
                       ret |-> localStorage[d.key]]
    /\ UNCHANGED <<localStorage, sessionStorage, bc, nextId, stored>>

----------------------------------------------------------------------------

(* Scenarios.  Each is a set of callers; every operation runs whole.      *)
(* Which tab runs an operation makes no difference to the store, so one   *)
(* tab acts wherever the session is not involved.                         *)

Count(k) == Len(Stored(k))

ProjectIds == IdsOf(KEYS.projects) \cup {MissingProject}
LeadIds == IdsOf(KEYS.leads) \cup {MissingLead}

\* The project screens: the admin creates a project for a customer
\* (registerOrGetUserByEmail, then addProject), converts a lead, assigns,
\* approves, edits and toggles stages.
NextProjects ==
    \E t \in {"tabA"} :
        \/ seedDemo(t)
        \/ /\ Count(KEYS.users) < MaxEdited
           /\ registerOrGetUserByEmail(t, <<"a","@","x">>, "Ann", "customer")
        \/ /\ Count(KEYS.projects) < MaxEdited
           /\ \E c \in IdsOf(KEYS.users) : addProject(t, c, [budget |-> 42000, commissionPercent |-> 7])
        \/ \E p \in ProjectIds, ch \in Changes : updateProject(t, p, ch)
        \/ \E p \in ProjectIds, k \in StageKeys \cup {"paint"} : toggleStage(t, p, k)
        \/ /\ Count(KEYS.leads) < MaxEdited
           /\ addLead(t, Null, <<"b","@","y">>, "note")
        \/ /\ Count(KEYS.projects) < MaxEdited
           /\ \E l \in LeadIds : convertLeadToProject(t, l, "Cust", 5000)

SpecProjects == Init /\ [][NextProjects]_vars

\* The leads: a referrer registers and adds leads, the admin converts them.
NextLeads ==
    \E t \in {"tabA"} :
        \/ seedDemo(t)
        \/ registerUser(t, <<"a","@","x">>, "Ann", "referrer")
        \/ /\ Count(KEYS.leads) < MaxLen
           /\ \E r \in IdsOf(KEYS.users) \cup {Null}, email \in {<<"A","@","X">>, <<"b","@","y">>} :
                  addLead(t, r, email, "note")
        \/ /\ Count(KEYS.projects) < MaxLen
           /\ \E l \in LeadIds : convertLeadToProject(t, l, "Cust", 5000)

SpecLeads == Init /\ [][NextLeads]_vars

\* The accounts: every operation that writes the Users collection, and the
\* reset.
NextUsers ==
    \E t \in {"tabA"} :
        \/ \E email \in Emails, name \in Names : registerUser(t, email, name, "referrer")
        \/ \E email \in Emails : registerOrGetUserByEmail(t, email, "Ann", "customer")
        \/ /\ Count(KEYS.leads) < MaxEdited
           /\ addLead(t, Null, <<"B","@","Y">>, "note")
        \/ /\ Count(KEYS.projects) < MaxEdited
           /\ \E l \in IdsOf(KEYS.leads) : convertLeadToProject(t, l, "Cust", 5000)
        \/ seedDemo(t)
        \/ clearAll(t)

SpecUsers == Init /\ [][NextUsers]_vars

\* Signing in: registration, login and logout in either tab.
NextLogin ==
    \E t \in Tabs :
        \/ \E email \in Emails, name \in Names : registerUser(t, email, name, "referrer")
        \/ \E email \in Emails : loginUser(t, email)
        \/ clearSession(t)

SpecLogin == Init /\ [][NextLogin]_vars

\* Two tabs on the project list: both assign and approve.
NextTabsProjects ==
    \E t \in Tabs :
        \/ seedDemo(t)
        \/ \E p \in IdsOf(KEYS.projects), ch \in Changes : updateProjectRead(t, p, ch)
        \/ updateProjectWrite(t)

SpecTabsProjects == Init /\ [][NextTabsProjects]_vars

\* Two tabs registering.
NextTabsUsers ==
    \E t \in Tabs :
        \/ \E email \in {<<"a","@","x">>, <<"A","@","X">>} :
               registerUserRead(t, email, "Ann", "referrer")
        \/ registerUserWrite(t)
        \/ registerOrGetUserByEmailRead(t, <<"a","@","x">>, "Ann", "customer")
        \/ registerOrGetUserByEmailWrite(t)

SpecTabsUsers == Init /\ [][NextTabsUsers]_vars

\* Two tabs on the leads: a referrer adds leads while the admin converts.
NextTabsLeads ==
    \E t \in Tabs :
        \/ /\ Count(KEYS.leads) < MaxLen
           /\ \E email \in {<<"A","@","X">>, <<"b","@","y">>} : addLeadRead(t, Null, email, "note")
        \/ addLeadWrite(t)
        \/ /\ Count(KEYS.projects) < MaxLen
           /\ \E l \in IdsOf(KEYS.leads) : convertLeadToProject(t, l, "Cust", 5000)

SpecTabsLeads == Init /\ [][NextTabsLeads]_vars

\* Calls that fail among calls that succeed: registration and login with
\* missing, unknown and taken emails, conversion and update with unknown ids.
NextErrors ==
    \E t \in {"tabA"} :
        \/ seedDemo(t)
        \/ \E email \in Emails, name \in Names : registerUser(t, email, name, "referrer")
        \/ \E email \in Emails \cup {AliceEmail} : loginUser(t, email)
        \/ /\ Count(KEYS.projects) < MaxLen
           /\ \E l \in LeadIds : convertLeadToProject(t, l, "Cust", 5000)
        \/ \E p \in ProjectIds, ch \in Changes : updateProject(t, p, ch)

SpecErrors == Init /\ [][NextErrors]_vars

\* The stage buttons of two projects, the seeded one and one made from the
\* seeded lead; a key no project has and an id no project has among them.
NextStages ==
    \E t \in {"tabA"} :
        \/ seedDemo(t)
        \/ /\ Count(KEYS.projects) < MaxLen
           /\ \E l \in IdsOf(KEYS.leads) : convertLeadToProject(t, l, "Cust", 5000)
        \/ \E p \in ProjectIds, k \in StageKeys \cup {"paint"} : toggleStage(t, p, k)

SpecStages == Init /\ [][NextStages]_vars

\* The project list and the project detail with two projects: assign,
\* approve, the budget edit, and the stage buttons of the seeded project.
NextUpdates ==
    \E t \in {"tabA"} :
        \/ seedDemo(t)
        \/ /\ Count(KEYS.projects) < MaxLen
           /\ \E l \in IdsOf(KEYS.leads) : convertLeadToProject(t, l, "Cust", 5000)
        \/ \E p \in ProjectIds, ch \in AllChanges : updateProject(t, p, ch)
        \/ /\ Count(KEYS.projects) > 0
           /\ \E k \in StageKeys : toggleStage(t, Stored(KEYS.projects)[Count(KEYS.projects)].id, k)

SpecUpdates == Init /\ [][NextUpdates]_vars

\* The buttons of the admin's project list and detail: Assign on every
\* project, Approve on every project that is not verified, the stage buttons.
NextButtons ==
    \E t \in {"tabA"} :
        \/ seedDemo(t)
        \/ \E p \in IdsOf(KEYS.projects) : updateProject(t, p, AssignChanges)
        \/ \E i \in DOMAIN Stored(KEYS.projects) :
               /\ ~Stored(KEYS.projects)[i].verified
               /\ updateProject(t, Stored(KEYS.projects)[i].id, ApproveChanges)
        \/ \E p \in IdsOf(KEYS.projects), k \in StageKeys : toggleStage(t, p, k)

SpecButtons == Init /\ [][NextButtons]_vars

\* The settings and the project forms: the admin saves the default
\* commission, projects are created from the forms and from the seeded lead,
\* the store is reset.
NextDefaults ==
    \E t \in {"tabA"} :
        \/ seedDemo(t)
        \/ \E obj \in DefaultsObjs : writeDefaults(t, obj)
        \/ /\ Count(KEYS.users) < MaxEdited
           /\ registerOrGetUserByEmail(t, <<"a","@","x">>, "a", "customer")
        \/ /\ Count(KEYS.projects) < MaxLen
           /\ Count(KEYS.users) > 0
           /\ \E payload \in Payloads : addProject(t, Stored(KEYS.users)[1].id, payload)
        \/ /\ Count(KEYS.projects) < MaxLen
           /\ \E l \in IdsOf(KEYS.leads) : convertLeadToProject(t, l, "Cust", 5000)
        \/ clearAll(t)

SpecDefaults == Init /\ [][NextDefaults]_vars

\* Two tabs on the settings: each saves a default commission (write of the
\* defaults) and handles the other's messages.
NextMessages ==
    \E t \in Tabs :
        \/ \E obj \in DefaultsObjs : writeBegin(t, KEYS.defaults, obj)
        \/ writeStep(t)
        \/ onmessage(t)

SpecMessages == Init /\ [][NextMessages]_vars

\* Two tabs signing in, switching the user (a stored user, picked at random)
\* and signing out.
NextSessions ==
    \E t \in Tabs :
        \/ seedDemo(t)
        \/ \E email \in {AliceEmail, BobEmail, <<"a","@","x">>} : loginUser(t, email)
        \/ \E user \in SeqRange(Stored(KEYS.users)) : setSessionExtern(t, user)
        \/ clearSession(t)

SpecSessions == Init /\ [][NextSessions]_vars

\* The reset: two tabs seed, register, sign in and clear the store.
NextReset ==
    \E t \in Tabs :
        \/ seedDemo(t)
        \/ registerUser(t, <<"a","@","x">>, "Ann", "referrer")
        \/ \E email \in {AliceEmail, <<"A","@","X">>} : loginUser(t, email)
        \/ clearAll(t)

SpecReset == Init /\ [][NextReset]_vars

\* The boot: every load of the dashboard calls seedDemo, between
\* registrations, leads added (also by a tab whose session outlived a reset)
\* and resets.
NextSeed ==
    \E t \in {"tabA"} :
        \/ seedDemo(t)
        \/ registerUser(t, <<"a","@","x">>, "Ann", "referrer")
        \/ /\ Count(KEYS.leads) < MaxLen
           /\ addLead(t, Null, <<"b","@","y">>, "note")
        \/ clearAll(t)

SpecSeed == Init /\ [][NextSeed]_vars

\* Reading: the views read every collection, with the store seeded, cleared,
\* written by a registration, or holding a text that does not parse.
NextRead ==
    \/ \E k \in StoreKeys : corruptItem(k)
    \/ \E t \in {"tabA"} :
        \/ \E k \in StoreKeys, fallback \in Fallbacks : readItem(t, k, fallback)
        \/ seedDemo(t)
        \/ registerUser(t, <<"a","@","x">>, "Ann", "referrer")
        \/ clearAll(t)

SpecRead == Init /\ [][NextRead]_vars

\* The callers of the data layer on the stages of a project: projects made
\* by the form and from a lead, the stage buttons, and updateProject with the
\* dashboard's Assign and with changes that name the stages.
NextStageLists ==
    \E t \in {"tabA"} :
        \/ seedDemo(t)
        \/ /\ Count(KEYS.projects) < MaxLen
           /\ \E l \in IdsOf(KEYS.leads) : convertLeadToProject(t, l, "Cust", 5000)
        \/ /\ Count(KEYS.projects) < MaxLen
           /\ Count(KEYS.users) > 0
           /\ addProject(t, Stored(KEYS.users)[1].id, [location |-> "Hill", budget |-> 9000])
        \/ \E p \in IdsOf(KEYS.projects), ch \in {AssignChanges, StagesChanges} :
               updateProject(t, p, ch)
        \/ /\ Count(KEYS.projects) > 0
           /\ \E k \in StageKeys : toggleStage(t, Stored(KEYS.projects)[1].id, k)

SpecStageLists == Init /\ [][NextStageLists]_vars

\* The commission shown: projects are seeded and made by the form, the admin
\* edits budget and commission, and the list is drawn.
NextCommission ==
    \E t \in {"tabA"} :
        \/ seedDemo(t)
        \/ /\ Count(KEYS.projects) < MaxLen
           /\ Count(KEYS.users) > 0
           /\ \E payload \in {[budget |-> 42000, commissionPercent |-> 7], [budget |-> 50]} :
                  addProject(t, Stored(KEYS.users)[1].id, payload)
        \/ \E p \in IdsOf(KEYS.projects), ch \in BudgetEdits \cup CommissionEdits :
               updateProject(t, p, ch)
        \/ renderProjects(t)

SpecCommission == Init /\ [][NextCommission]_vars

\* The order of the leads and of the projects: every operation that stores
\* a lead or a project, next to the ones that edit the oldest project or
\* remove everything.
NextOrder ==
    \E t \in {"tabA"} :
        \/ seedDemo(t)
        \/ /\ Count(KEYS.leads) < MaxLen
           /\ addLead(t, Null, <<"b","@","y">>, "note")
        \/ /\ Count(KEYS.projects) < MaxLen
           /\ Count(KEYS.users) > 0
           /\ addProject(t, Stored(KEYS.users)[1].id, [location |-> "Hill", budget |-> 9000])
        \/ /\ Count(KEYS.projects) < MaxLen
           /\ \E l \in IdsOf(KEYS.leads) : convertLeadToProject(t, l, "Cust", 5000)
        \/ /\ Count(KEYS.projects) > 0
           /\ updateProject(t, Stored(KEYS.projects)[Count(KEYS.projects)].id, AssignChanges)
        \/ /\ Count(KEYS.projects) > 0
           /\ toggleStage(t, Stored(KEYS.projects)[Count(KEYS.projects)].id, "framing")
        \/ clearAll(t)

SpecOrder == Init /\ [][NextOrder]_vars

\* The references between leads, projects and users: the leads scenario with
\* the operations of the dashboard that store or edit projects.
NextReferences ==
    \/ NextLeads
    \/ \E t \in {"tabA"} :
           \/ /\ Count(KEYS.projects) < MaxEdited
              /\ Count(KEYS.users) > 0
              /\ addProject(t, Stored(KEYS.users)[1].id, [location |-> "Hill", budget |-> 9000])
           \/ /\ Count(KEYS.projects) > 0
              /\ updateProject(t, Stored(KEYS.projects)[1].id, AssignChanges)

SpecReferences == Init /\ [][NextReferences]_vars

\* What each operation writes: every domain operation, with the boot and
\* the settings save, while either tab signs in.
NextFrame ==
    \/ \E t \in Tabs, email \in {<<"a","@","x">>, <<"B","@","Y">>} : loginUser(t, email)
    \/ \E t \in {"tabA"} :
           \/ seedDemo(t)
           \/ registerUser(t, <<"a","@","x">>, "Ann", "referrer")
           \/ registerOrGetUserByEmail(t, <<"B","@","Y">>, "Bo", "customer")
           \/ /\ Count(KEYS.leads) < MaxEdited
              /\ addLead(t, getSession(sessionStorage[t]), <<"b","@","y">>, "note")
           \/ /\ Count(KEYS.projects) < MaxEdited
              /\ Count(KEYS.users) > 0
              /\ addProject(t, Stored(KEYS.users)[1].id, [location |-> "Hill", budget |-> 9000])
           \/ /\ Count(KEYS.projects) < MaxLen
              /\ \E l \in IdsOf(KEYS.leads) : convertLeadToProject(t, l, "Cust", 5000)
           \/ /\ Count(KEYS.projects) > 0
              /\ updateProject(t, Stored(KEYS.projects)[Count(KEYS.projects)].id, AssignChanges)
           \/ /\ Count(KEYS.projects) > 0
              /\ toggleStage(t, Stored(KEYS.projects)[Count(KEYS.projects)].id, "framing")
           \/ writeDefaults(t, [defaultCommission |-> 10])

SpecFrame == Init /\ [][NextFrame]_vars

\* Every caller at once.  Its states are far too many to enumerate; each
\* claim is checked under the scenario that holds every operation writing
\* what the claim reads.
Next ==
    \/ NextProjects
    \/ NextLeads
    \/ NextUsers
    \/ NextLogin
    \/ NextTabsProjects
    \/ NextTabsUsers
    \/ NextTabsLeads
    \/ NextErrors
    \/ NextStages
    \/ NextUpdates
    \/ NextButtons
    \/ NextDefaults
    \/ NextMessages
    \/ NextSessions
    \/ NextReset
    \/ NextSeed
    \/ NextRead
    \/ NextStageLists
    \/ NextCommission
    \/ NextOrder
    \/ NextReferences
    \/ NextFrame

Spec == Init /\ [][Next]_vars

----------------------------------------------------------------------------
(* Claims about the project status. *)

Projects == Stored(KEYS.projects)
Leads == Stored(KEYS.leads)
Users == Stored(KEYS.users)

AllDone(p) == every(p.stages)

\* C1 as stated: every stored project has all of its stages done if and only
\* if its status is 'completed'.
C1_AllDoneIffCompleted ==
    \A i \in DOMAIN Projects :
        AllDone(Projects[i]) <=> Projects[i].status = "completed"

\* C1 as amended: every stored project all of whose stages are done has the
\* status 'completed' (a reopened stage leaves the status 'completed').
C1_AllDoneImpliesCompleted ==
    \A i \in DOMAIN Projects :
        AllDone(Projects[i]) => Projects[i].status = "completed"

\* toggleStage has just completed the last open stage of a project
C1_Witness ==
    /\ last.op = "toggleStage"
    /\ \E i \in DOMAIN Projects :
        /\ Projects[i].id = last.args.projectId
        /\ AllDone(Projects[i])
        /\ Projects[i].status = "completed"

\* C2: once a stored project is 'completed', no toggleStage or updateProject
\* call leaves it with another status.
C2_CompletedIsTerminal ==
    [][\A i \in DOMAIN Projects :
          (/\ Projects[i].status = "completed"
           /\ last'.op \in {"toggleStage", "updateProject"})
          => \A j \in DOMAIN read(localStorage', KEYS.projects, <<>>) :
                 LET q == read(localStorage', KEYS.projects, <<>>)[j]
                 IN  q.id = Projects[i].id => q.status = "completed"]_vars

----------------------------------------------------------------------------
(* Claims about the leads and the accounts. *)

IsError(ret) == ret # Null /\ Has(ret, "error")
IsOk(ret) == ret # Null /\ Has(ret, "ok")

Projects1 == read(localStorage', KEYS.projects, <<>>)
Leads1 == read(localStorage', KEYS.leads, <<>>)
Users1 == read(localStorage', KEYS.users, <<>>)

\* C3: convertLeadToProject on a lead that is already 'converted' returns an
\* error, creates no project and no user and leaves the lead's
\* convertedProjectId as it is.
C3_ConvertedLeadRejected ==
    [][\A i \in DOMAIN Leads :
          (/\ last'.op = "convertLeadToProject"
           /\ last'.args.leadId = Leads[i].id
           /\ Leads[i].status = "converted")
          => /\ IsError(last'.ret)
             /\ Len(Projects1) = Len(Projects)
             /\ Len(Users1) = Len(Users)
             /\ \A j \in DOMAIN Leads1 :
                    Leads1[j].id = Leads[i].id
                    => Leads1[j].convertedProjectId = Leads[i].convertedProjectId]_vars

\* C7: every stored lead has a convertedProjectId if and only if its status
\* is 'converted'.
C7_ConvertedIffProjectId ==
    \A i \in DOMAIN Leads :
        Leads[i].convertedProjectId # Null <=> Leads[i].status = "converted"

\* a lead has just been converted, beside one that has not
C7_Witness ==
    /\ last.op = "convertLeadToProject"
    /\ \E i \in DOMAIN Leads :
           Leads[i].id = last.args.leadId /\ Leads[i].status = "converted"
    /\ \E i \in DOMAIN Leads : Leads[i].status = "new"

\* C9: a successful convertLeadToProject of a stored lead L returns a project
\* P that is stored, carries L's referrerId and belongs to a stored user
\* whose email is L's; afterwards L is 'converted' and points to P.
C9_ConvertResult ==
    [][\A i \in DOMAIN Leads :
          (/\ last'.op = "convertLeadToProject"
           /\ last'.args.leadId = Leads[i].id
           /\ IsOk(last'.ret))
          => LET L == Leads[i]
                 P == last'.ret.project
             IN  /\ \E j \in DOMAIN Projects1 : Projects1[j] = P
                 /\ P.referrerId = L.referrerId
                 /\ \E u \in DOMAIN Users1 :
                        Users1[u].id = P.customerId /\ Users1[u].email = L.email
                 /\ \E j \in DOMAIN Leads1 :
                        /\ Leads1[j].id = L.id
                        /\ Leads1[j].status = "converted"
                        /\ Leads1[j].convertedProjectId = P.id]_vars

\* a lead that names its referrer has just been converted for a customer
\* who had no account
C9_Witness ==
    /\ last.op = "convertLeadToProject"
    /\ IsOk(last.ret)
    /\ last.ret.project.referrerId # Null
    /\ Users[Len(Users)].id = last.ret.project.customerId
    /\ Users[Len(Users)].name = "Cust"

\* C6: with every operation run whole, no two stored users have emails that
\* are equal ignoring case.
C6_EmailsUnique ==
    \A i, j \in DOMAIN Users :
        i # j => toLowerCase(Users[i].email) # toLowerCase(Users[j].email)

\* a registration has just been refused for an email that differs from a
\* stored one in letter case only
C6_Witness ==
    /\ last.op = "registerUser"
    /\ IsError(last.ret)
    /\ last.args.email # <<>>
    /\ last.args.name # ""
    /\ \E i \in DOMAIN Users :
           Users[i].email # last.args.email /\ SameEmail(Users[i], last.args.email)
    /\ Len(Users) >= 2

\* C10: a successful registerUser followed at once by loginUser with the same
\* email in any letter case sets the calling tab's session to the user that
\* registerUser returned.
C10_RegisterThenLogin ==
    [][(/\ last.op = "registerUser"
        /\ IsOk(last.ret)
        /\ last'.op = "loginUser"
        /\ toLowerCase(last'.args.email) = toLowerCase(last.args.email))
       => /\ sessionStorage'[last'.tab] # Null
          /\ getSession(sessionStorage'[last'.tab]).id = last.ret.user.id]_vars

\* a tab is signed in as the second registered user, under an email written
\* in another letter case than the one it was registered with
C10_Witness ==
    /\ last.op = "loginUser"
    /\ IsOk(last.ret)
    /\ last.args.email # last.ret.user.email
    /\ Len(Users) >= 2
    /\ last.ret.user.id = Users[2].id
    /\ getSession(sessionStorage[last.tab]) = Users[2]

----------------------------------------------------------------------------
(* Claims about two tabs. *)

Writes(t, op) == tab[t].pc = op /\ tab'[t].pc = "idle"

ProjectIn(projects, id) ==
    LET Match(x) == x.id = id
    IN  projects[FindIndex({k \in DOMAIN projects : Match(projects[k])})]

HasProject(projects, id) == \E i \in DOMAIN projects : projects[i].id = id

\* C4: two tabs have read the projects before either writes, and each writes
\* its own updateProject of the same project: the stored project then has the
\* later writer's change on the project as both read it, the earlier writer's
\* change is gone, and neither call failed.
C4_LostUpdate ==
    [][\A t \in Tabs :
          (/\ Writes(t, "updateProject")
           /\ last.op = "updateProject"
           /\ last.tab # t
           /\ last.ret # Null
           /\ last.args.projectId = tab[t].args.projectId
           /\ tab[t].snap # localStorage[KEYS.projects]
           /\ HasProject(Parse(tab[t].snap, <<>>), tab[t].args.projectId))
          => LET id == tab[t].args.projectId
                 before == ProjectIn(Parse(tab[t].snap, <<>>), id)
                 after == ProjectIn(Projects1, id)
                 mine == tab[t].args.changes
                 theirs == last.args.changes
             IN  /\ last'.ret # Null
                 /\ \A f \in DOMAIN mine \ {"status"} : after[f] = mine[f]
                 /\ \A f \in DOMAIN theirs \ DOMAIN mine : after[f] = before[f]
                 /\ after.status = IF AllDone(before) THEN "completed" ELSE mine.status]_vars

\* tabA's Assign returned a project with the contractor, tabB's Approve was
\* written after it, and the stored project has no contractor
C4_Witness ==
    /\ tab["tabA"].pc = "idle"
    /\ Has(tab["tabA"], "ret")
    /\ tab["tabA"].op = "updateProject"
    /\ tab["tabA"].args.changes = AssignChanges
    /\ tab["tabA"].ret # Null
    /\ last.op = "updateProject"
    /\ last.tab = "tabB"
    /\ last.args = [tab["tabA"].args EXCEPT !.changes = ApproveChanges]
    /\ last.ret # Null
    /\ HasProject(Projects, last.args.projectId)
    /\ ProjectIn(Projects, last.args.projectId).verified
    /\ ProjectIn(Projects, last.args.projectId).assignedContractor = Null

Unique(users) ==
    \A i, j \in DOMAIN users :
        i # j => toLowerCase(users[i].email) # toLowerCase(users[j].email)

Registers(t) == Writes(t, "registerUser") \/ Writes(t, "registerOrGetUserByEmail")

\* tab t is about to write a user whose email, ignoring case, another tab has
\* stored since t read the Users collection
Raced(t) ==
    /\ Registers(t)
    /\ tab[t].args.email # <<>>
    /\ tab[t].args.name # ""
    /\ \A i \in DOMAIN Parse(tab[t].snap, <<>>) :
           ~SameEmail(Parse(tab[t].snap, <<>>)[i], tab[t].args.email)
    /\ \E i \in DOMAIN Users : SameEmail(Users[i], tab[t].args.email)

\* C5 as stated: when two tabs register the same email with their reads and
\* writes interleaved, the Users collection ends up with two users whose
\* emails are equal ignoring case.
C5_RaceDuplicates ==
    [][\A t \in Tabs : Raced(t) => ~Unique(Users1)]_vars

\* C5 as amended: the race never leaves two users with emails equal ignoring
\* case in the Users collection; the later write replaces the collection, so
\* the user the earlier tab stored is gone from it, and the later tab is told
\* its registration succeeded.
C5_RaceLosesRegistration ==
    [][/\ Unique(Users1)
       /\ \A t \in Tabs :
              Raced(t)
              => /\ last'.ret # Null
                 /\ ~IsError(last'.ret)
                 /\ \A i \in DOMAIN Users :
                        SameEmail(Users[i], tab[t].args.email)
                        => \A j \in DOMAIN Users1 : Users1[j].id # Users[i].id]_vars

\* both tabs were told they registered the same email, under different ids,
\* and only the later one is stored
C5_Witness ==
    /\ tab["tabA"].pc = "idle"
    /\ Has(tab["tabA"], "ret")
    /\ tab["tabA"].op = "registerUser"
    /\ IsOk(tab["tabA"].ret)
    /\ last.op = "registerUser"
    /\ last.tab = "tabB"
    /\ IsOk(last.ret)
    /\ SameEmail(last.ret.user, tab["tabA"].ret.user.email)
    /\ last.ret.user.id # tab["tabA"].ret.user.id
    /\ Len(Users) = 1
    /\ Users[1] = last.ret.user

\* Lead status is one-way in this step: a stored lead's status changes only
\* in convertLeadToProject of that lead, from 'new' to 'converted', and a
\* 'converted' lead that is still stored stays 'converted' with its project.
OneWay ==
    \A i \in DOMAIN Leads, j \in DOMAIN Leads1 :
        Leads1[j].id = Leads[i].id
        => /\ Leads1[j].status # Leads[i].status
              => /\ last'.op = "convertLeadToProject"
                 /\ last'.args.leadId = Leads[i].id
                 /\ Leads[i].status = "new"
                 /\ Leads1[j].status = "converted"
           /\ Leads[i].status = "converted"
              => /\ Leads1[j].status = "converted"
                 /\ Leads1[j].convertedProjectId # Null

\* C8 as stated: lead status is one-way in every step.
C8_LeadOneWay == [][OneWay]_vars

\* the writing tab read the leads after the last write to them
Current(t) == tab[t].snap = localStorage[KEYS.leads]

\* C8 as amended: lead status is one-way in every step of an operation that
\* no other tab's write to the leads fell into.
C8_LeadOneWayWhole ==
    [][(\A t \in Tabs : Writes(t, "addLead") => Current(t)) => OneWay]_vars

\* a lead has just been converted a second time, beside a lead added before
\* and one added after its first conversion
C8_Witness ==
    /\ last.op = "convertLeadToProject"
    /\ IsOk(last.ret)
    /\ Len(Projects) = 2
    /\ Len(Leads) = 2
    /\ \E i \in DOMAIN Leads :
           /\ Leads[i].id = last.args.leadId
           /\ Leads[i].convertedProjectId = Projects[1].id
    /\ \E i \in DOMAIN Leads : Leads[i].status = "new"

----------------------------------------------------------------------------
(* Claims about failing calls. *)

\* C11: registerUser with an email that differs only in letter case from a
\* stored user's email returns an error and adds no user; the error is the
\* conflict error whenever a name was given.
C11_CaseConflict ==
    [][(/\ last'.op = "registerUser"
        /\ \E i \in DOMAIN Users :
               /\ Users[i].email # last'.args.email
               /\ SameEmail(Users[i], last'.args.email))
       => /\ IsError(last'.ret)
          /\ last'.args.name # "" => last'.ret.error = "Email already registered"
          /\ Users1 = Users]_vars

\* A@X has just been refused with the conflict error while a@x is the only
\* stored user
C11_Witness ==
    /\ last.op = "registerUser"
    /\ last.args = [email |-> <<"A","@","X">>, name |-> "Ann", role |-> "referrer"]
    /\ IsError(last.ret)
    /\ last.ret.error = "Email already registered"
    /\ Len(Users) = 1
    /\ Users[1].email = <<"a","@","x">>

Known(users, email) == \E i \in DOMAIN users : SameEmail(users[i], email)

\* the call that this step completes is one of the failing calls
Fails ==
    \/ /\ last'.op = "registerUser"
       /\ \/ last'.args.email = <<>>
          \/ last'.args.name = ""
          \/ Known(Users, last'.args.email)
    \/ /\ last'.op = "loginUser"
       /\ ~Known(Users, last'.args.email)
    \/ /\ last'.op = "convertLeadToProject"
       /\ \A i \in DOMAIN Leads : Leads[i].id # last'.args.leadId
    \/ /\ last'.op = "updateProject"
       /\ ~HasProject(Projects, last'.args.projectId)

\* C12: a failing registerUser, loginUser or convertLeadToProject returns an
\* error result and a failing updateProject returns null; each leaves the four
\* collections and every session as they were and posts no message.
C12_FailuresChangeNothing ==
    [][Fails
       => /\ IF last'.op = "updateProject"
             THEN last'.ret = Null
             ELSE IsError(last'.ret)
          /\ localStorage' = localStorage
          /\ sessionStorage' = sessionStorage
          /\ bc' = <<>>]_vars

\* a login with an unknown email has just failed in a tab that is signed in,
\* with users, leads and projects stored
C12_Witness ==
    /\ last.op = "loginUser"
    /\ IsError(last.ret)
    /\ sessionStorage[last.tab] # Null
    /\ bc = <<>>
    /\ Len(Users) > 0
    /\ Len(Leads) > 0
    /\ Len(Projects) > 0

----------------------------------------------------------------------------
(* Claims about stages and updates. *)

HasStage(p, stageKey) == \E j \in DOMAIN p.stages : p.stages[j].key = stageKey

\* C13: toggleStage for an id no project has, or for a key the project has no
\* stage with, returns null, writes nothing and posts no message.
C13_ToggleFailsSilently ==
    [][(/\ last'.op = "toggleStage"
        /\ \/ ~HasProject(Projects, last'.args.projectId)
           \/ ~HasStage(ProjectIn(Projects, last'.args.projectId), last'.args.stageKey))
       => /\ last'.ret = Null
          /\ localStorage' = localStorage
          /\ bc' = <<>>]_vars

\* the done flag of every stage of every project
Flags(projects) ==
    [i \in DOMAIN projects |->
        [j \in DOMAIN projects[i].stages |-> projects[i].stages[j].done]]

\* C14: from every reachable state, for every stored project and each of its
\* stage keys, one toggleStage flips that stage's done flag and no other, and
\* a second toggleStage with the same key puts every done flag of every
\* project back.
C14_ToggleTwice ==
    \A i \in DOMAIN Projects : \A j \in DOMAIN Projects[i].stages :
        LET a == [projectId |-> Projects[i].id, stageKey |-> Projects[i].stages[j].key]
            once == toggleStageOp(Here("tabA"), a)
            twice == toggleStageOp(once.E, a)
            flags1 == Flags(read(once.E.ls, KEYS.projects, <<>>))
            flags2 == Flags(read(twice.E.ls, KEYS.projects, <<>>))
        IN  /\ flags1 = [Flags(Projects) EXCEPT ![i][j] = ~@]
            /\ flags2 = Flags(Projects)

\* beside another project, a stage of the project made from the lead has been
\* completed and reopened: the project is 'completed' and the stage toggled
\* last is open
C14_Witness ==
    /\ last.op = "toggleStage"
    /\ Len(Projects) = 2
    /\ Projects[1].id = last.args.projectId
    /\ Projects[1].status = "completed"
    /\ \E j \in DOMAIN Projects[1].stages :
           /\ Projects[1].stages[j].key = last.args.stageKey
           /\ ~Projects[1].stages[j].done

\* C15: updateProject of a stored project merges the changes and then checks
\* completion: every field named in the changes other than status has the
\* given value; status is 'completed' if all stages are done and else the
\* status given, if one is; every field not named, other than status, is as
\* before; every other project is unchanged.
C15_ShallowMerge ==
    [][(/\ last'.op = "updateProject"
        /\ HasProject(Projects, last'.args.projectId))
       => LET id == last'.args.projectId
              ch == last'.args.changes
              before == ProjectIn(Projects, id)
              after == ProjectIn(Projects1, id)
          IN  /\ last'.ret = after
              /\ DOMAIN after = DOMAIN before \cup DOMAIN ch
              /\ \A f \in DOMAIN ch \ {"status"} : after[f] = ch[f]
              /\ AllDone(after) => after.status = "completed"
              /\ (~AllDone(after) /\ Has(ch, "status")) => after.status = ch.status
              /\ \A f \in DOMAIN before \ (DOMAIN ch \cup {"status"}) : after[f] = before[f]
              /\ Len(Projects1) = Len(Projects)
              /\ \A i \in DOMAIN Projects :
                     Projects[i].id # id => Projects1[i] = Projects[i]]_vars

\* Approve has just been applied to a project that has all stages done and a
\* contractor: it is verified, still 'completed', the contractor is kept, and
\* another project is stored beside it
C15_Witness ==
    /\ last.op = "updateProject"
    /\ last.args.changes = ApproveChanges
    /\ last.ret # Null
    /\ last.ret.verified
    /\ last.ret.status = "completed"
    /\ last.ret.assignedContractor = Str("Acme")
    /\ AllDone(last.ret)
    /\ Len(Projects) = 2

\* the status transitions of the project state machine
Allowed(from, to) ==
    \/ to = from
    \/ from = "pending" /\ to = "in-progress"
    \/ from = "in-progress" /\ to = "approved"
    \/ to = "completed"

\* C16: in every step of the Assign, Approve and stage buttons the status of
\* every stored project stays as it is or goes from pending to in-progress,
\* from in-progress to approved, or to completed.
C16_StatusTransitions ==
    [][\A i \in DOMAIN Projects : \A j \in DOMAIN Projects1 :
           Projects1[j].id = Projects[i].id
           => Allowed(Projects[i].status, Projects1[j].status)]_vars

----------------------------------------------------------------------------
(* Claims about the defaults. *)

\* the defaultCommission that is stored, 6 if the defaults have been removed
DefaultCommission ==
    IF localStorage[KEYS.defaults] = Null
    THEN 6
    ELSE localStorage[KEYS.defaults][1].defaultCommission

\* C17: addProject with no commissionPercent in the payload stores and returns
\* a project whose commissionPercent is the defaultCommission stored when it
\* is called; writeDefaults changes the commissionPercent of no stored
\* project.
C17_CommissionFromDefaults ==
    [][/\ (/\ last'.op = "addProject"
           /\ ~Has(last'.args.payload, "commissionPercent"))
          => /\ last'.ret.commissionPercent = DefaultCommission
             /\ Projects1[1] = last'.ret
       /\ last'.op = "writeDefaults"
          => /\ Len(Projects1) = Len(Projects)
             /\ \A i \in DOMAIN Projects :
                    Projects1[i].commissionPercent = Projects[i].commissionPercent]_vars

\* a project has just been created at the default of 10 that the settings
\* hold, beside one created at 6 before the default was changed
C17_Witness ==
    /\ last.op = "addProject"
    /\ ~Has(last.args.payload, "commissionPercent")
    /\ DefaultCommission = 10
    /\ Len(Projects) = 2
    /\ Projects[1].commissionPercent = 10
    /\ Projects[2].commissionPercent = 6

----------------------------------------------------------------------------
(* Claims about the upsert, the messages and the sessions. *)

\* C18: every registerOrGetUserByEmail returns a user and adds at most one;
\* a call that directly follows one with an email equal ignoring case returns
\* the same user id, leaves the Users collection as it is and posts no
\* message.
C18_IdempotentUpsert ==
    [][last'.op = "registerOrGetUserByEmail"
       => /\ last'.ret # Null
          /\ Has(last'.ret, "id")
          /\ \E j \in DOMAIN Users1 : Users1[j] = last'.ret
          /\ Len(Users1) \in {Len(Users), Len(Users) + 1}
          /\ (/\ last.op = "registerOrGetUserByEmail"
              /\ SameEmail(last'.args, last.args.email))
             => /\ last'.ret.id = last.ret.id
                /\ Users1 = Users
                /\ bc' = <<>>]_vars

\* the upsert has just returned, for A@X and without a message, the customer
\* it had created
C18_Witness ==
    /\ last.op = "registerOrGetUserByEmail"
    /\ last.args.email = <<"A","@","X">>
    /\ last.ret.email = <<"a","@","x">>
    /\ last.ret.role = "customer"
    /\ bc = <<>>
    /\ Len(Users) = 1

\* tab t runs this statement of its write in this step
Does(t, statement) ==
    /\ tab[t].pc = "write"
    /\ tab'[t] # tab[t]
    /\ Head(tab[t].todo) = statement

\* tab t handles the message at the head of its inbox in this step
Handles(t) ==
    /\ tab[t].pc = "idle"
    /\ inbox[t] # <<>>
    /\ inbox'[t] = Tail(inbox[t])

\* C19: the setItem of write(k, v) replaces the stored value of k by v and
\* nothing else; its postMessage comes after the setItem and puts exactly one
\* sync message naming k into every other tab's inbox; a tab that handles
\* the message reads k as stored by the announced setItem or by a later one.
C19_WriteThenNotify ==
    [][\A t \in Tabs :
          /\ Does(t, "setItem")
             => localStorage' = [localStorage EXCEPT ![tab[t].key] = <<tab[t].value>>]
          /\ Does(t, "postMessage")
             => /\ stored[t] = tab[t].seq
                /\ localStorage[tab[t].key] # Null
                /\ inbox'[t] = inbox[t]
                /\ \A u \in Others(t) :
                       /\ Len(inbox'[u]) = Len(inbox[u]) + 1
                       /\ SubSeq(inbox'[u], 1, Len(inbox[u])) = inbox[u]
                       /\ inbox'[u][Len(inbox'[u])].type = "sync"
                       /\ inbox'[u][Len(inbox'[u])].key = tab[t].key
          /\ Handles(t)
             => /\ stored[Head(inbox[t]).from] >= Head(inbox[t]).seq
                /\ tab'[t].ret = localStorage[Head(inbox[t]).key]]_vars

\* tabB has just handled the message of tabA's save of 10 and read 10, the
\* defaults having been 6 before
C19_Witness ==
    /\ last.op = "onmessage"
    /\ last.tab = "tabB"
    /\ last.args.from = "tabA"
    /\ last.args.seq = 1
    /\ stored = [t \in Tabs |-> IF t = "tabA" THEN 1 ELSE 0]
    /\ last.ret = <<[defaultCommission |-> 10]>>
    /\ tab["tabA"].pc = "idle"

\* C20: setSession, loginUser and clearSession in one tab leave the session
\* of every other tab as it is; setSession and a successful loginUser set the
\* calling tab's session and post one auth message with the user's id,
\* clearSession removes it and posts one auth-logout message.
C20_SessionsPerTab ==
    [][last'.op \in {"setSession", "loginUser", "clearSession"}
       => /\ \A u \in Tabs \ {last'.tab} :
                 getSession(sessionStorage'[u]) = getSession(sessionStorage[u])
          /\ last'.op = "setSession"
             => /\ getSession(sessionStorage'[last'.tab]) = last'.args.user
                /\ bc' = <<[type |-> "auth", userId |-> last'.args.user.id]>>
          /\ (last'.op = "loginUser" /\ IsOk(last'.ret))
             => /\ getSession(sessionStorage'[last'.tab]) = last'.ret.user
                /\ bc' = <<[type |-> "auth", userId |-> last'.ret.user.id]>>
          /\ last'.op = "clearSession"
             => /\ getSession(sessionStorage'[last'.tab]) = Null
                /\ bc' = <<[type |-> "auth-logout"]>>]_vars

\* tabB has just switched to Bob while tabA is signed in as Alice
C20_Witness ==
    /\ last.op = "setSession"
    /\ last.tab = "tabB"
    /\ getSession(sessionStorage["tabB"]) # Null
    /\ getSession(sessionStorage["tabB"]).email = BobEmail
    /\ getSession(sessionStorage["tabA"]) # Null
    /\ getSession(sessionStorage["tabA"]).email = AliceEmail

----------------------------------------------------------------------------
(* Claims about the reset, the seed and reading. *)

\* C21: after clearAll, read of each of the four collections returns the
\* fallback it is given, getSession in the calling tab returns null, and the
\* call has posted exactly one message, of type 'cleared'.
C21_ClearAll ==
    [][last'.op = "clearAll"
       => /\ \A k \in StoreKeys, fallback \in Fallbacks :
                 read(localStorage', k, fallback) = fallback
          /\ getSession(sessionStorage'[last'.tab]) = Null
          /\ bc' = <<[type |-> "cleared"]>>]_vars

\* tabA has just cleared a seeded store; tabB is still signed in
C21_Witness ==
    /\ last.op = "clearAll"
    /\ last.tab = "tabA"
    /\ nextId["p_"] = 2
    /\ localStorage = [k \in StoreKeys |-> Null]
    /\ sessionStorage["tabA"] = Null
    /\ sessionStorage["tabB"] # Null

\* C22: seedDemo called while the users, the leads or the projects hold an
\* entry leaves the store as it is.
C22_SeedOnlyIfEmpty ==
    [][(/\ last'.op = "seedDemo"
        /\ \/ Len(Users) > 0
           \/ Len(Leads) > 0
           \/ Len(Projects) > 0)
       => localStorage' = localStorage]_vars

\* the keys of the stages of p that are done
DoneKeys(p) == {p.stages[j].key : j \in {i \in DOMAIN p.stages : p.stages[i].done}}

\* C23: seedDemo with users stored writes nothing and posts nothing, and a
\* second seedDemo leaves what the first left; with no user stored it stores
\* three users, one of each role, one lead with status 'new' and one
\* 'pending' project whose only done stage is the foundation.
C23_SeedDemo ==
    [][last'.op = "seedDemo"
       => /\ IF Len(Users) > 0
             THEN localStorage' = localStorage /\ bc' = <<>>
             ELSE /\ Len(Users1) = 3
                  /\ {Users1[i].role : i \in DOMAIN Users1} = Roles
                  /\ Len(Leads1) = 1
                  /\ Leads1[1].status = "new"
                  /\ Len(Projects1) = 1
                  /\ Projects1[1].status = "pending"
                  /\ DoneKeys(Projects1[1]) = {"foundation"}
          /\ LET again == seedDemoOp(Env(localStorage', sessionStorage'[last'.tab], nextId'))
             IN  again.E.ls = localStorage' /\ again.E.bc = <<>>]_vars

\* seedDemo has just been called on the store it had seeded, and changed
\* nothing
C23_Witness ==
    /\ last.op = "seedDemo"
    /\ bc = <<>>
    /\ Len(Users) = 3
    /\ Len(Leads) = 1
    /\ Len(Projects) = 1
    /\ nextId["p_"] = 2

\* C24: read(k, fallback) of a key that holds no text, or a text that does
\* not parse, returns the fallback, raises nothing and leaves the store as it
\* is.
C24_ReadNeverFails ==
    [][(/\ last'.op = "read"
        /\ localStorage[last'.args.k] \in {Null, Corrupt})
       => /\ last'.ret = last'.args.fallback
          /\ localStorage' = localStorage]_vars

\* the users have just been read as [] from a text that does not parse,
\* which is still stored, beside the projects of the seed
C24_Witness ==
    /\ last.op = "read"
    /\ last.args = [k |-> KEYS.users, fallback |-> <<>>]
    /\ last.ret = <<>>
    /\ localStorage[KEYS.users] = Corrupt
    /\ localStorage[KEYS.projects] \notin {Null, Corrupt}

----------------------------------------------------------------------------
(* Claims about the shape and the order of the collections. *)

StageKeyList(p) == [j \in DOMAIN p.stages |-> p.stages[j].key]

\* C25: every stored project has the four stages foundation, framing, roof,
\* finishing, in that order.
C25_FourStages ==
    \A i \in DOMAIN Projects :
        StageKeyList(Projects[i]) = <<"foundation", "framing", "roof", "finishing">>


Abs(n) == IF n < 0 THEN -n ELSE n

\* C26: the commission amount shown for a project is budget * commissionPercent
\* / 100 rounded to the nearest integer (no integer is nearer to the quotient),
\* and a project made by addProject with budget 42000 and commissionPercent 7
\* shows 2940.
C26_CommissionAmount ==
    last.op = "renderProjects" =>
        /\ DOMAIN last.ret = DOMAIN Projects
        /\ \A i \in DOMAIN Projects :
               LET p == Projects[i]
               IN  /\ Abs(100 * last.ret[i] - p.budget * p.commissionPercent) <= 50
                   /\ (p.budget = 42000 /\ p.commissionPercent = 7) => last.ret[i] = 2940

\* the list is drawn with a project made by addProject (no location given)
\* with budget 42000 at 7 percent, shown with 2940, next to a project whose
\* quotient is not an integer
C26_Witness ==
    /\ last.op = "renderProjects"
    /\ \E i \in DOMAIN Projects :
           /\ Projects[i].location = "--"
           /\ Projects[i].budget = 42000
           /\ Projects[i].commissionPercent = 7
           /\ last.ret[i] = 2940
    /\ \E i \in DOMAIN Projects :
           (Projects[i].budget * Projects[i].commissionPercent) % 100 # 0


IdList(xs) == [i \in DOMAIN xs |-> xs[i].id]

\* the ids of xs that are also stored in ys, in the order of xs
Kept(xs, ys) == SelectSeq(IdList(xs), LAMBDA id : id \in SeqRange(IdList(ys)))

\* uid is drawn at creation: a later entry has the larger counter
NewestFirst(xs) == \A i, j \in DOMAIN xs : i < j => xs[i].id[2] > xs[j].id[2]

\* C27: leads and projects are ordered most recently created first: addLead
\* and addProject, also through convertLeadToProject, put the new entry at
\* index 0 before the entries stored so far, and no operation changes the
\* relative order of the entries that stay stored.
C27_NewestFirst ==
    [][/\ last'.op = "addLead" => Leads1 = <<last'.ret>> \o Leads
       /\ last'.op = "addProject" => Projects1 = <<last'.ret>> \o Projects
       /\ (last'.op = "convertLeadToProject" /\ IsOk(last'.ret)) =>
              Projects1 = <<last'.ret.project>> \o Projects
       /\ Kept(Leads, Leads1) = Kept(Leads1, Leads)
       /\ Kept(Projects, Projects1) = Kept(Projects1, Projects)
       /\ NewestFirst(Leads1)
       /\ NewestFirst(Projects1)]_vars

\* a second lead has just been put before the first, next to two projects,
\* the newer one first
C27_Witness ==
    /\ last.op = "addLead"
    /\ Len(Leads) = 2
    /\ Leads[1] = last.ret
    /\ Len(Projects) = 2
    /\ Projects[1].id[2] > Projects[2].id[2]


----------------------------------------------------------------------------
(* Claims about what an operation leaves alone. *)

\* the step writes no item of localStorage other than those under ks
Only(ks) == \A k \in StoreKeys \ ks : localStorage'[k] = localStorage[k]

SameSessions == sessionStorage' = sessionStorage

\* C29: each domain operation writes only the collections it is about:
\* registerUser and registerOrGetUserByEmail only users; addLead only leads;
\* addProject, updateProject and toggleStage only projects;
\* convertLeadToProject only users, projects and leads; loginUser only the
\* session of the calling tab; and no operation other than writeDefaults and
\* clearAll changes the defaults.
C29_Frame ==
    [][/\ last'.op \in {"registerUser", "registerOrGetUserByEmail"} =>
              Only({KEYS.users}) /\ SameSessions
       /\ last'.op = "addLead" => Only({KEYS.leads}) /\ SameSessions
       /\ last'.op \in {"addProject", "updateProject", "toggleStage"} =>
              Only({KEYS.projects}) /\ SameSessions
       /\ last'.op = "convertLeadToProject" =>
              Only({KEYS.users, KEYS.projects, KEYS.leads}) /\ SameSessions
       /\ last'.op = "loginUser" =>
              /\ Only({})
              /\ \A u \in Tabs \ {last'.tab} : sessionStorage'[u] = sessionStorage[u]
       /\ last'.op \notin {"writeDefaults", "clearAll"} =>
              localStorage'[KEYS.defaults] = localStorage[KEYS.defaults]]_vars

\* a lead has been converted by tabA, which is signed in, while tabB is signed
\* in as somebody else and the defaults are those the settings saved
C29_Witness ==
    /\ last.op = "convertLeadToProject"
    /\ last.tab = "tabA"
    /\ IsOk(last.ret)
    /\ readObj(localStorage, KEYS.defaults, FallbackDefaults).defaultCommission = 10
    /\ getSession(sessionStorage["tabA"]) # Null
    /\ getSession(sessionStorage["tabB"]) # Null
    /\ getSession(sessionStorage["tabA"]) # getSession(sessionStorage["tabB"])

====
